---- MODULE Spec2Model ----
(***************************************************************************)
(* Driver-tracking client: trip-location sync with its pending-update      *)
(* queue (TripLocationService, ActiveTripMaps.handleLocationUpdate), the   *)
(* JWT auth client (ApiAuthService), the REST client's request headers     *)
(* (TripApiService.fetchWithAuth) and the two ways a trip is started       *)
(* (TripDashboard.handleStartTrip, PreTripChecklist.handleSubmit).         *)
(*                                                                         *)
(* Every await of an async function is one step of the model, so that      *)
(* callbacks interleave exactly where the event loop lets them.            *)
(***************************************************************************)
EXTENDS Integers, Sequences, FiniteSets, TLC

(* ---------------- bounds ---------------- *)
MaxTs == 3
MaxQueue == 4
MaxNowMs == 11000
TickMs == 500

(* ---------------- values ---------------- *)
Trips == {"t1", "t2"}
TodayTrips == {"t1"}
NoTrip == "null"
Handlers == {"h1"}
RetryCalls == {"r1", "r2"}
\* the call of a caller that awaits each retry before the next
OneRetryCall == {"r1"}
NoCoord == 0
Timestamps == 1..MaxTs

VARIABLES
  fsOnline,        \* Firestore writes currently succeed
  gpsClock,        \* timestamp of the latest GPS fix
  pendingUpdates,  \* TripLocationService.pendingUpdates
  currentTripId,   \* TripLocationService.currentTripId
  tripDoc,         \* trip_locations/{tripId} documents
  screenTrip,      \* route.params.tripId of the mounted ActiveTripMaps
  hPc, hCoord, hTrip, hFs, hRest,   \* handleLocationUpdate invocations
  rPc, rUpdates, rIdx, rTrip,       \* retryPendingUpdates invocations
  rQueued,         \* the queue as the retry call found it
  rWritten,        \* coordinates the retry call has written, in order
  rFailed,         \* coordinates whose retry failed, in order
  rClean,          \* no write has failed since the retry call started
  rAlone,          \* nothing else has pushed to or drained the queue since
  rBefore,         \* per running retry call: when it began, the current trip's document
                   \* held a position newer than the last coordinate of its batch
  owed,            \* coordinates whose write failed and that no write has stored since
  capturedFor,     \* per coordinate, the trips whose screen received it as a GPS fix
  failLog,         \* coordinates of failed GPS-callback writes since the last drain
  requeued,        \* a retry has re-queued since the last drain
  nowMs,           \* Date.now()
  storedToken,     \* AsyncStorage item 'auth_token'
  storedUser,      \* AsyncStorage item 'user_data'
  issuedExp,       \* the exp claim the server put into the stored token
  everLoggedIn,    \* a login has succeeded, the main screens have been shown
  authResult,      \* what the latest isAuthenticated() call returned
  authReadOk,      \* whether that call could read the storage
  lastRequest,     \* the latest REST request sent by tripApiService
  knownStatus,     \* TripDashboard: status of each trip as last loaded
  dashPc, dashTrip,          \* TripDashboard: start alert open, handleStartTrip in flight
  clPc, clTrip,              \* PreTripChecklist screen and its handleSubmit
  clIssue,         \* the submitted items include one with status ISSUE
  clPassed,        \* result.passed of the latest submission
  clValidated,     \* that result came from the server
  checklistSubmitted,  \* trips for which submitChecklist has been called
  checklistPassed,     \* trips for which a submission was reported passed
  startInvokedBy,  \* per trip, the screens that called tripApiService.startTrip
  startedOk,       \* trips whose startTrip request succeeded
  platform,        \* Platform.OS
  osGranted,       \* the OS grants the app a location permission
  watchId, isTracking, mockLocationEnabled,   \* LocationEmulatorService fields
  handles,         \* every position watch and mock interval created so far
  mountCount,      \* ActiveTripMaps instances mounted so far
  mounted,         \* the latest instance is still mounted
  initPc,          \* per instance, where its initializeTrip stands
  timer,           \* per instance, its elapsed-time interval is running
  listener,        \* MockTripService.listeners entry of the trip: the instance it calls
  trackResult,     \* per instance, what startLocationTracking returned to it
  lastLocate,      \* outcome of the latest getCurrentLocation call
  rx,              \* per instance, a bit that flips with every GPS fix and one that
                   \* flips with every simulated location its callback receives
  fellBack,        \* instances whose watch reported an error while tracking
  point1, point2,  \* arguments of calculateDistance
  distance12, distance21,  \* calculateDistance(point1, point2) and the reverse
  passengerStatus, \* TripPassengersScreen: status of each passenger in the local list
  boardPc,         \* per passenger, where a handleBoardPassenger stands
  boardResult,     \* per passenger, how the latest check-in request ended
  boardError,      \* the 'No se pudo registrar el abordaje' alert has been shown
  checkedIn,       \* passengers the server has recorded a check-in for
  mockTrips        \* MockTripService.trips

locVars == <<fsOnline, gpsClock, pendingUpdates, currentTripId,
             tripDoc, screenTrip, hPc, hCoord, hTrip, hFs, hRest,
             rPc, rUpdates, rIdx, rTrip, rQueued, rWritten, rFailed, rClean, rAlone,
             rBefore, owed, capturedFor, failLog, requeued>>

authVars == <<nowMs, storedToken, storedUser, issuedExp, everLoggedIn,
              authResult, authReadOk, lastRequest>>

startVars == <<knownStatus, dashPc, dashTrip, clPc, clTrip, clIssue, clPassed,
               clValidated, checklistSubmitted, checklistPassed, startInvokedBy, startedOk>>

trackVars == <<platform, osGranted, watchId, isTracking, mockLocationEnabled, handles,
               mountCount, mounted, initPc, timer, listener, trackResult, lastLocate,
               rx, fellBack>>

geoVars == <<point1, point2, distance12, distance21>>

boardVars == <<passengerStatus, boardPc, boardResult, boardError, checkedIn>>

mockVars == <<mockTrips>>

vars == <<locVars, authVars, startVars, trackVars, geoVars, boardVars, mockVars>>

(* ---------------- TripLocationService ---------------- *)

NoDoc == [exists |-> FALSE, status |-> "NONE", currentLocation |-> NoCoord]

\* tripLocationRef.update(...) resolves only when the backend is reachable
\* and the document exists; doc(null) throws inside the try block.
FsUpdateOk(tripId) ==
  /\ fsOnline
  /\ tripId \in Trips
  /\ tripDoc[tripId].exists

\* the document after update({currentLocation: coordinate, ...})
DocAfterUpdate(doc, coordinate) == [doc EXCEPT !.currentLocation = coordinate]

\* a queue that stops accepting entries once it holds two
QueueOnFailure_Capped(queue, coordinate) ==
  IF Len(queue) >= 2 THEN queue ELSE Append(queue, coordinate)

\* a queue that holds only the coordinate that failed last
QueueOnFailure_KeepsLatest(queue, coordinate) == <<coordinate>>

\* catch of updateCurrentLocation: this.pendingUpdates.push(coordinate)
QueueOnFailure(queue, coordinate) == Append(queue, coordinate)

\* catch inside retryPendingUpdates: this.pendingUpdates.push(coordinate)
RetryRequeue(queue, coordinate) == Append(queue, coordinate)

\* the snapshot taken as an alias of the array that is then emptied
TakeBatch_Aliased(queue) == <<>>

\* const updates = [...this.pendingUpdates]
TakeBatch(queue) == queue

\* getPendingUpdatesCount()
getPendingUpdatesCount == Len(pendingUpdates)

\* the document of the trip holds a position newer than the last coordinate
\* of the queue
NewerThanLast(tripId, queue) ==
  /\ tripId \in Trips
  /\ Len(queue) > 0
  /\ tripDoc[tripId].currentLocation > queue[Len(queue)]

\* a failed write marks every retry call as no longer failure-free
Tainted == [r \in RetryCalls |-> FALSE]

LocInit ==
  /\ fsOnline = TRUE
  /\ gpsClock = 1
  /\ pendingUpdates = <<>>
  /\ currentTripId = NoTrip
  /\ tripDoc = [t \in Trips |-> NoDoc]
  /\ screenTrip = NoTrip
  /\ hPc = [h \in Handlers |-> "idle"]
  /\ hCoord = [h \in Handlers |-> NoCoord]
  /\ hTrip = [h \in Handlers |-> NoTrip]
  /\ hFs = [h \in Handlers |-> "none"]
  /\ hRest = [h \in Handlers |-> "none"]
  /\ rPc = [r \in RetryCalls |-> "idle"]
  /\ rUpdates = [r \in RetryCalls |-> <<>>]
  /\ rIdx = [r \in RetryCalls |-> 0]
  /\ rTrip = [r \in RetryCalls |-> NoTrip]
  /\ rQueued = [r \in RetryCalls |-> <<>>]
  /\ rWritten = [r \in RetryCalls |-> <<>>]
  /\ rFailed = [r \in RetryCalls |-> <<>>]
  /\ rClean = [r \in RetryCalls |-> FALSE]
  /\ rAlone = [r \in RetryCalls |-> FALSE]
  /\ rBefore = [r \in RetryCalls |-> FALSE]
  /\ owed = {}
  /\ capturedFor = [ts \in Timestamps |-> {}]
  /\ failLog = <<>>
  /\ requeued = FALSE

handlerVars == <<hPc, hCoord, hTrip, hFs, hRest>>
retryVars == <<rPc, rUpdates, rIdx, rTrip, rQueued, rWritten, rFailed>>
retryGhost == <<rClean, rAlone, rBefore, owed, capturedFor>>
netVars == <<fsOnline>>

(* ---------------- environment ---------------- *)

\* connectivity to Firestore comes and goes
NetworkChange ==
  /\ fsOnline' = ~fsOnline
  /\ UNCHANGED <<gpsClock, pendingUpdates, currentTripId, tripDoc, screenTrip,
                 handlerVars, retryVars, retryGhost, failLog, requeued>>
  /\ UNCHANGED <<authVars, startVars, trackVars, geoVars, boardVars, mockVars>>

(* ---------------- ActiveTripMaps ---------------- *)

\* useEffect(initializeTrip): tripLocationService.setCurrentTripId(tripId)
MountActiveTrip(tripId) ==
  /\ screenTrip = NoTrip
  /\ screenTrip' = tripId
  /\ currentTripId' = tripId
  /\ UNCHANGED <<netVars, gpsClock, pendingUpdates, tripDoc,
                 handlerVars, retryVars, retryGhost, failLog, requeued>>
  /\ UNCHANGED <<authVars, startVars, trackVars, geoVars, boardVars, mockVars>>

\* the effect's cleanup: the screen is gone, the service keeps its state
UnmountActiveTrip ==
  /\ screenTrip # NoTrip
  /\ screenTrip' = NoTrip
  /\ UNCHANGED <<netVars, gpsClock, pendingUpdates, currentTripId, tripDoc,
                 handlerVars, retryVars, retryGhost, failLog, requeued>>
  /\ UNCHANGED <<authVars, startVars, trackVars, geoVars, boardVars, mockVars>>

\* initializeTripLocation: set() the document, then remember the trip
InitializeTripLocation(tripId) ==
  /\ fsOnline
  /\ tripDoc' = [tripDoc EXCEPT ![tripId] =
                   [exists |-> TRUE, status |-> "ACTIVE", currentLocation |-> NoCoord]]
  /\ currentTripId' = tripId
  /\ UNCHANGED <<netVars, gpsClock, pendingUpdates, screenTrip,
                 handlerVars, retryVars, retryGhost, failLog, requeued>>
  /\ UNCHANGED <<authVars, startVars, trackVars, geoVars, boardVars, mockVars>>

\* endTrip: stopLocationTracking(), so the screen takes no further fix, then
\* completeTripLocation(tripId) marks the document COMPLETED and forgets the
\* current trip; its error is caught and only logged; the screen is left
EndTrip ==
  /\ screenTrip # NoTrip
  /\ screenTrip' = NoTrip
  /\ IF FsUpdateOk(screenTrip)
       THEN /\ tripDoc' = [tripDoc EXCEPT ![screenTrip] = [@ EXCEPT !.status = "COMPLETED"]]
            /\ currentTripId' = NoTrip
       ELSE UNCHANGED <<tripDoc, currentTripId>>
  /\ UNCHANGED <<netVars, gpsClock, pendingUpdates,
                 handlerVars, retryVars, retryGhost, failLog, requeued>>
  /\ UNCHANGED <<authVars, startVars, trackVars, geoVars, boardVars, mockVars>>

\* GPS callback: handleLocationUpdate(location) runs up to its first await,
\* the tripLocationRef.update(...) inside updateCurrentLocation
HandleLocationUpdate(h, ts) ==
  /\ hPc[h] = "idle"
  /\ screenTrip # NoTrip
  /\ ts \in Timestamps
  /\ ts \in {gpsClock, gpsClock + 1}
  /\ gpsClock' = ts
  /\ hPc' = [hPc EXCEPT ![h] = "update"]
  /\ hCoord' = [hCoord EXCEPT ![h] = ts]
  /\ hTrip' = [hTrip EXCEPT ![h] = screenTrip]
  /\ hFs' = [hFs EXCEPT ![h] = "pending"]
  /\ hRest' = [hRest EXCEPT ![h] = "none"]
  /\ capturedFor' = [capturedFor EXCEPT ![ts] = @ \cup {screenTrip}]
  /\ UNCHANGED <<netVars, pendingUpdates, currentTripId, tripDoc, screenTrip,
                 retryVars, rClean, rAlone, rBefore, owed, failLog, requeued>>
  /\ UNCHANGED <<authVars, startVars, trackVars, geoVars, boardVars, mockVars>>

\* a handleLocationUpdate without its try/catch: the rejection leaves the
\* callback and the handler takes no further fix
AfterFirestoreFailure_Rethrows == "thrown"

\* what handleLocationUpdate does once updateCurrentLocation has thrown:
\* the catch block logs, and the sendLocation call of the try block is skipped
AfterFirestoreFailure == "idle"

\* the update of updateCurrentLocation settles for a GPS callback
HandlerUpdateSettles(h) ==
  /\ hPc[h] = "update"
  /\ IF FsUpdateOk(hTrip[h])
       THEN /\ tripDoc' = [tripDoc EXCEPT ![hTrip[h]] = DocAfterUpdate(@, hCoord[h])]
            /\ hFs' = [hFs EXCEPT ![h] = "ok"]
            /\ hPc' = [hPc EXCEPT ![h] = "history"]
            /\ owed' = owed \ {hCoord[h]}
            /\ UNCHANGED <<pendingUpdates, failLog, rClean, rAlone>>
       ELSE /\ Len(pendingUpdates) < MaxQueue
            /\ pendingUpdates' = QueueOnFailure(pendingUpdates, hCoord[h])
            /\ failLog' = Append(failLog, hCoord[h])
            /\ rClean' = Tainted
            /\ rAlone' = Tainted
            /\ owed' = owed \cup {hCoord[h]}
            /\ hFs' = [hFs EXCEPT ![h] = "failed"]
            /\ hPc' = [hPc EXCEPT ![h] = AfterFirestoreFailure]
            /\ UNCHANGED tripDoc
  /\ UNCHANGED <<netVars, gpsClock, currentTripId, screenTrip, hCoord, hTrip, hRest,
                 retryVars, rBefore, capturedFor, requeued>>
  /\ UNCHANGED <<authVars, startVars, trackVars, geoVars, boardVars, mockVars>>

\* addToHistory settles; its own failure is swallowed (non-critical)
HandlerHistorySettles(h) ==
  /\ hPc[h] = "history"
  /\ hPc' = [hPc EXCEPT ![h] = "rest"]
  /\ UNCHANGED <<netVars, gpsClock, pendingUpdates, currentTripId, tripDoc, screenTrip,
                 hCoord, hTrip, hFs, hRest, retryVars, retryGhost, failLog, requeued>>
  /\ UNCHANGED <<authVars, startVars, trackVars, geoVars, boardVars, mockVars>>

\* a sendLocation that queued the coordinate it failed to post
QueueOnRestFailure_Queues(queue, coordinate) == Append(queue, coordinate)

\* catch of sendLocation: log and return null; nothing is queued
QueueOnRestFailure(queue, coordinate) == queue

\* tripApiService.sendLocation: the POST is made and settles, response.ok or not
HandlerSendLocation(h, ok) ==
  /\ hPc[h] = "rest"
  /\ hRest' = [hRest EXCEPT ![h] = IF ok THEN "ok" ELSE "failed"]
  /\ pendingUpdates' = IF ok THEN pendingUpdates
                       ELSE QueueOnRestFailure(pendingUpdates, hCoord[h])
  /\ hPc' = [hPc EXCEPT ![h] = "idle"]
  /\ UNCHANGED <<netVars, gpsClock, currentTripId, tripDoc, screenTrip,
                 hCoord, hTrip, hFs, retryVars, retryGhost, failLog, requeued>>
  /\ UNCHANGED <<authVars, startVars, trackVars, geoVars, boardVars, mockVars>>

(* ---------------- retryPendingUpdates ---------------- *)

\* the other retry calls no longer have the queue to themselves
OthersNotAlone(r) == [x \in RetryCalls |-> IF x = r THEN rAlone[x] ELSE FALSE]

\* the for-of loop moves to the next coordinate, reading this.currentTripId
\* for the next updateCurrentLocation call, or the call returns
RetryAdvance(r, updates, idx) ==
  IF idx < Len(updates)
    THEN /\ rIdx' = [rIdx EXCEPT ![r] = idx + 1]
         /\ rTrip' = [rTrip EXCEPT ![r] = currentTripId]
         /\ rPc' = [rPc EXCEPT ![r] = "update"]
    ELSE /\ rPc' = [rPc EXCEPT ![r] = "done"]
         /\ rIdx' = [rIdx EXCEPT ![r] = idx]
         /\ rTrip' = [rTrip EXCEPT ![r] = NoTrip]

\* what is remembered of call r once it has moved past its current coordinate:
\* nothing when that was the last of its batch
SnapshotAfter(r) ==
  IF rIdx[r] < Len(rUpdates[r]) THEN rBefore
  ELSE [rBefore EXCEPT ![r] = FALSE]

\* retryPendingUpdates() is called: early return on an empty queue or no
\* current trip, otherwise snapshot and clear the queue and start the loop
RetryPendingUpdates(r) ==
  /\ rPc[r] \in {"idle", "done"}
  /\ ~(Len(pendingUpdates) = 0 \/ currentTripId = NoTrip)
  /\ rUpdates' = [rUpdates EXCEPT ![r] = TakeBatch(pendingUpdates)]
  /\ pendingUpdates' = <<>>
  /\ RetryAdvance(r, TakeBatch(pendingUpdates), 0)
  /\ rQueued' = [rQueued EXCEPT ![r] = pendingUpdates]
  /\ rWritten' = [rWritten EXCEPT ![r] = <<>>]
  /\ rFailed' = [rFailed EXCEPT ![r] = <<>>]
  /\ rClean' = [rClean EXCEPT ![r] = TRUE]
  /\ rAlone' = [x \in RetryCalls |-> x = r]
  /\ rBefore' = [rBefore EXCEPT ![r] = NewerThanLast(currentTripId, pendingUpdates)]
  /\ UNCHANGED <<owed, capturedFor>>
  /\ failLog' = <<>>
  /\ requeued' = FALSE
  /\ UNCHANGED <<netVars, gpsClock, currentTripId, tripDoc, screenTrip, handlerVars>>
  /\ UNCHANGED <<authVars, startVars, trackVars, geoVars, boardVars, mockVars>>

\* the update of updateCurrentLocation settles for the coordinate being retried
RetryUpdateSettles(r) ==
  /\ rPc[r] = "update"
  /\ LET coordinate == rUpdates[r][rIdx[r]] IN
     IF FsUpdateOk(rTrip[r])
       THEN /\ tripDoc' = [tripDoc EXCEPT ![rTrip[r]] = DocAfterUpdate(@, coordinate)]
            /\ rWritten' = [rWritten EXCEPT ![r] = Append(@, coordinate)]
            /\ rPc' = [rPc EXCEPT ![r] = "history"]
            /\ owed' = owed \ {coordinate}
            /\ UNCHANGED <<pendingUpdates, rFailed, rIdx, rTrip, rClean, rAlone, rBefore,
                           requeued>>
       ELSE /\ Len(pendingUpdates) + 2 <= MaxQueue
            /\ pendingUpdates' =
                 RetryRequeue(QueueOnFailure(pendingUpdates, coordinate), coordinate)
            /\ rFailed' = [rFailed EXCEPT ![r] = Append(@, coordinate)]
            /\ rClean' = Tainted
            /\ rAlone' = OthersNotAlone(r)
            /\ owed' = owed \cup {coordinate}
            /\ requeued' = TRUE
            /\ RetryAdvance(r, rUpdates[r], rIdx[r])
            /\ rBefore' = SnapshotAfter(r)
            /\ UNCHANGED <<tripDoc, rWritten>>
  /\ UNCHANGED <<netVars, gpsClock, currentTripId, screenTrip, handlerVars,
                 rUpdates, rQueued, capturedFor, failLog>>
  /\ UNCHANGED <<authVars, startVars, trackVars, geoVars, boardVars, mockVars>>

\* addToHistory settles for the retried coordinate; updateCurrentLocation returns
RetryHistorySettles(r) ==
  /\ rPc[r] = "history"
  /\ RetryAdvance(r, rUpdates[r], rIdx[r])
  /\ rBefore' = SnapshotAfter(r)
  /\ UNCHANGED <<rClean, rAlone, owed, capturedFor>>
  /\ UNCHANGED <<netVars, gpsClock, pendingUpdates, currentTripId, tripDoc, screenTrip,
                 handlerVars, rUpdates, rQueued, rWritten, rFailed,
                 failLog, requeued>>
  /\ UNCHANGED <<authVars, startVars, trackVars, geoVars, boardVars, mockVars>>

(* ---------------- ApiAuthService: JWT handling ---------------- *)

\* characters are their char codes
ChPlus == 43
ChMinus == 45
ChSlash == 47
ChPad == 61
ChUnderscore == 95

\* const chars = 'ABC...XYZabc...xyz0123456789+/'
chars ==
  [i \in 1..64 |->
     IF i <= 26 THEN 64 + i
     ELSE IF i <= 52 THEN 96 + (i - 26)
     ELSE IF i <= 62 THEN 47 + (i - 52)
     ELSE IF i = 63 THEN ChPlus ELSE ChSlash]

\* chars.indexOf(ch): zero-based position, -1 when ch is not in chars
IndexOf(ch) ==
  IF \E i \in 1..64 : chars[i] = ch
    THEN (CHOOSE i \in 1..64 : chars[i] = ch) - 1
    ELSE -1

\* x | y on two's-complement integers (all operands here fit 32 bits)
RECURSIVE BitOr(_, _)
BitOr(x, y) ==
  IF x = 0 THEN y
  ELSE IF y = 0 THEN x
  ELSE IF x = -1 \/ y = -1 THEN -1
  ELSE (IF x % 2 = 1 \/ y % 2 = 1 THEN 1 ELSE 0) + 2 * BitOr(x \div 2, y \div 2)

\* x << n
Shl(x, n) == x * (2 ^ n)

\* (x >> n) & 255
ShrAnd255(x, n) == (x \div (2 ^ n)) % 256

\* while (str.length % 4) str += '='
RECURSIVE PadTo4(_)
PadTo4(str) == IF Len(str) % 4 = 0 THEN str ELSE PadTo4(Append(str, ChPad))

\* one pass of the decoding loop: four characters in, up to three bytes out
DecodeGroup(c1, c2, c3, c4) ==
  LET a == IndexOf(c1)
      b == IndexOf(c2)
      c == IndexOf(c3)
      d == IndexOf(c4)
      bitmap == BitOr(BitOr(BitOr(Shl(a, 18), Shl(b, 12)), Shl(c, 6)), d)
  IN  <<ShrAnd255(bitmap, 16)>>
        \o (IF c # 64 THEN <<ShrAnd255(bitmap, 8)>> ELSE <<>>)
        \o (IF d # 64 THEN <<ShrAnd255(bitmap, 0)>> ELSE <<>>)

RECURSIVE DecodeFrom(_, _)
DecodeFrom(str, i) ==
  IF i > Len(str) THEN <<>>
  ELSE DecodeGroup(str[i], str[i + 1], str[i + 2], str[i + 3]) \o DecodeFrom(str, i + 4)

\* base64Decode(str)
base64Decode(str) == DecodeFrom(PadTo4(str), 1)

\* base64Url.replace(/-/g, '+').replace(/_/g, '/')
UrlToStd(str) ==
  [i \in 1..Len(str) |->
     IF str[i] = ChMinus THEN ChPlus
     ELSE IF str[i] = ChUnderscore THEN ChSlash ELSE str[i]]

\* the text {"exp": of a payload, and its closing brace
PayloadPrefix == <<123, 34, 101, 120, 112, 34, 58>>
ChCloseBrace == 125

RECURSIVE DigitsOf(_)
DigitsOf(n) == IF n < 10 THEN <<48 + n>> ELSE Append(DigitsOf(n \div 10), 48 + (n % 10))

RECURSIVE NumberOf(_)
NumberOf(ds) ==
  IF Len(ds) = 0 THEN 0
  ELSE 10 * NumberOf(SubSeq(ds, 1, Len(ds) - 1)) + (ds[Len(ds)] - 48)

\* JSON.parse on the text of a payload: the object {"exp":<number>} parses,
\* any text holding other characters (such as char code 255) throws
JsonParse(text) ==
  LET n == Len(text)
      p == Len(PayloadPrefix)
      digits == SubSeq(text, p + 1, n - 1)
  IN  IF /\ n >= p + 2
         /\ SubSeq(text, 1, p) = PayloadPrefix
         /\ text[n] = ChCloseBrace
         /\ \A i \in 1..Len(digits) : digits[i] \in 48..57
         /\ (Len(digits) > 1 => digits[1] # 48)
        THEN [ok |-> TRUE, exp |-> NumberOf(digits)]
        ELSE [ok |-> FALSE, exp |-> 0]

MsPerSec == 1000

\* the comparison with exp taken for milliseconds
NotExpired_Millis(exp, nowMillis) == exp * MsPerSec > nowMillis \div MsPerSec

\* payload.exp > currentTime, currentTime = Math.floor(Date.now() / 1000)
NotExpired(exp, nowMillis) == exp > nowMillis \div MsPerSec

\* isTokenValid(token): false on expiry and on any decoding or parsing error
isTokenValid(token, nowMillis) ==
  IF Len(token) < 2 THEN FALSE
  ELSE LET payload == JsonParse(base64Decode(UrlToStd(token[2])))
       IN  IF payload.ok THEN NotExpired(payload.exp, nowMillis) ELSE FALSE

(* the server's side: an RFC 7515 token, base64url without padding *)

SextetChar(v) ==
  IF chars[v + 1] = ChPlus THEN ChMinus
  ELSE IF chars[v + 1] = ChSlash THEN ChUnderscore ELSE chars[v + 1]

RECURSIVE Base64UrlEncode(_)
Base64UrlEncode(bytes) ==
  IF Len(bytes) = 0 THEN <<>>
  ELSE IF Len(bytes) = 1 THEN
    <<SextetChar(bytes[1] \div 4), SextetChar((bytes[1] % 4) * 16)>>
  ELSE IF Len(bytes) = 2 THEN
    <<SextetChar(bytes[1] \div 4),
      SextetChar((bytes[1] % 4) * 16 + bytes[2] \div 16),
      SextetChar((bytes[2] % 16) * 4)>>
  ELSE
    <<SextetChar(bytes[1] \div 4),
      SextetChar((bytes[1] % 4) * 16 + bytes[2] \div 16),
      SextetChar((bytes[2] % 16) * 4 + bytes[3] \div 64),
      SextetChar(bytes[3] % 64)>> \o Base64UrlEncode(SubSeq(bytes, 4, Len(bytes)))

PayloadText(exp) == PayloadPrefix \o DigitsOf(exp) \o <<ChCloseBrace>>

\* header {"alg":"HS256"} and an opaque signature
JwtHeader == Base64UrlEncode(<<123, 34, 97, 108, 103, 34, 58, 34, 72, 83, 50, 53, 54, 34, 125>>)
JwtSignature == <<115, 105, 103>>

\* the jwt of the login response for a session that ends at exp (in seconds)
IssueJwt(exp) == <<JwtHeader, Base64UrlEncode(PayloadText(exp)), JwtSignature>>

(* ---------------- ApiAuthService: storage and session ---------------- *)

ExpValues == {3, 10, 100}
NoToken == <<>>
NoUser == "null"
RequestKinds == {"fetchWithAuth", "sendLocation", "upload"}

NoHeaders == [k \in {} |-> <<>>]

\* { ...f, ...g }
Spread(f, g) ==
  [k \in DOMAIN f \cup DOMAIN g |-> IF k \in DOMAIN g THEN g[k] ELSE f[k]]

NoRequest == [kind |-> "none", headers |-> NoHeaders, read |-> NoToken, stored |-> NoToken]

AuthInit ==
  /\ nowMs = 0
  /\ storedToken = NoToken
  /\ storedUser = NoUser
  /\ issuedExp = 0
  /\ everLoggedIn = FALSE
  /\ authResult = "none"
  /\ authReadOk = FALSE
  /\ lastRequest = NoRequest

\* getAuthToken(): the stored item, null when there is none or the read throws
getAuthToken(readOk) == IF readOk THEN storedToken ELSE NoToken

\* getUserData(): the parsed item, null when there is none or the read throws
getUserData(readOk) == IF readOk THEN storedUser ELSE NoUser

\* an Authorization header that carries the bare token
getAuthHeader_Bare(token) ==
  IF token # NoToken THEN [Authorization |-> <<token>>] ELSE NoHeaders

\* getAuthHeader(): token ? { Authorization: `Bearer ${token}` } : {}
getAuthHeader(token) ==
  IF token # NoToken THEN [Authorization |-> <<"Bearer", token>>] ELSE NoHeaders

JsonHeaders == [ContentType |-> <<"application/json">>, Accept |-> <<"application/json">>]

\* the headers each kind of request is sent with; no caller of fetchWithAuth
\* passes options.headers
RequestHeaders(kind, authHeader) ==
  IF kind = "fetchWithAuth" THEN Spread(Spread(JsonHeaders, authHeader), NoHeaders)
  ELSE IF kind = "sendLocation" THEN Spread(JsonHeaders, authHeader)
  ELSE authHeader

\* time passes
Tick ==
  /\ nowMs + TickMs <= MaxNowMs
  /\ nowMs' = nowMs + TickMs
  /\ authResult' = "none"
  /\ UNCHANGED <<storedToken, storedUser, issuedExp, everLoggedIn, authReadOk, lastRequest>>
  /\ UNCHANGED <<locVars, startVars, trackVars, geoVars, boardVars, mockVars>>

\* a login that stores the session before it looks at response.ok
Login_StoresBeforeResponseCheck(exp, responseOk, storeOk) ==
  /\ exp \in ExpValues
  /\ exp * MsPerSec > nowMs
  /\ IF storeOk
       THEN /\ storedToken' = IssueJwt(exp)
            /\ storedUser' = "u1"
            /\ issuedExp' = exp
            /\ everLoggedIn' = TRUE
       ELSE UNCHANGED <<storedToken, storedUser, issuedExp, everLoggedIn>>
  /\ authResult' = "none"
  /\ UNCHANGED <<nowMs, authReadOk, lastRequest>>
  /\ UNCHANGED <<locVars, startVars, trackVars, geoVars, boardVars, mockVars>>

\* login(credentials): POST /auth/login; on an OK response storeAuthData
\* writes the token and the user data; any failure throws and stores nothing
Login(exp, responseOk, storeOk) ==
  /\ exp \in ExpValues
  /\ exp * MsPerSec > nowMs
  /\ IF responseOk /\ storeOk
       THEN /\ storedToken' = IssueJwt(exp)
            /\ storedUser' = "u1"
            /\ issuedExp' = exp
            /\ everLoggedIn' = TRUE
       ELSE UNCHANGED <<storedToken, storedUser, issuedExp, everLoggedIn>>
  /\ authResult' = "none"
  /\ UNCHANGED <<nowMs, authReadOk, lastRequest>>
  /\ UNCHANGED <<locVars, startVars, trackVars, geoVars, boardVars, mockVars>>

\* logout(): multiRemove of both items; a storage error throws
Logout(removeOk) ==
  /\ storedToken # NoToken
  /\ IF removeOk
       THEN /\ storedToken' = NoToken
            /\ storedUser' = NoUser
            /\ issuedExp' = 0
       ELSE UNCHANGED <<storedToken, storedUser, issuedExp>>
  /\ authResult' = "none"
  /\ UNCHANGED <<nowMs, everLoggedIn, authReadOk, lastRequest>>
  /\ UNCHANGED <<locVars, startVars, trackVars, geoVars, boardVars, mockVars>>

\* isAuthenticated()
isAuthenticated(readOk) ==
  /\ authReadOk' = readOk
  /\ authResult' =
       IF getAuthToken(readOk) = NoToken \/ getUserData(readOk) = NoUser
         THEN "false"
         ELSE IF isTokenValid(getAuthToken(readOk), nowMs) THEN "true" ELSE "false"
  /\ <<authReadOk', authResult'>> # <<authReadOk, authResult>>
  /\ UNCHANGED <<nowMs, storedToken, storedUser, issuedExp, everLoggedIn, lastRequest>>
  /\ UNCHANGED <<locVars, startVars, trackVars, geoVars, boardVars, mockVars>>

\* a tripApiService method reads the auth header and sends its request
ApiRequest(kind, readOk) ==
  /\ everLoggedIn
  /\ lastRequest' = [kind |-> kind,
                     headers |-> RequestHeaders(kind, getAuthHeader(getAuthToken(readOk))),
                     read |-> getAuthToken(readOk),
                     stored |-> storedToken]
  /\ lastRequest' # lastRequest
  /\ UNCHANGED <<nowMs, storedToken, storedUser, issuedExp, everLoggedIn,
                 authResult, authReadOk>>
  /\ UNCHANGED <<locVars, startVars, trackVars, geoVars, boardVars, mockVars>>

(* ---------------- starting a trip ---------------- *)

TripStatuses == {"PLANNED", "PRE_CHECKLIST", "CHECKLIST_FAILED", "READY",
                 "IN_PROGRESS", "COMPLETED", "CANCELLED"}

\* handleTripPress: the statuses for which it offers to start the trip
OffersStart(status) ==
  status \in {"PLANNED", "PRE_CHECKLIST", "CHECKLIST_FAILED", "READY"}

\* the dashboard's trip list does not hold the trip yet
NotLoaded == "NOT_LOADED"

StartInit ==
  /\ knownStatus = [t \in Trips |-> NotLoaded]
  /\ dashPc = "idle"
  /\ dashTrip = NoTrip
  /\ clPc = "closed"
  /\ clTrip = NoTrip
  /\ clIssue = FALSE
  /\ clPassed = FALSE
  /\ clValidated = FALSE
  /\ checklistSubmitted = {}
  /\ checklistPassed = {}
  /\ startInvokedBy = [t \in Trips |-> {}]
  /\ startedOk = {}

\* navigation.navigate('ActiveTrip', { tripId }): the screen mounts and its
\* effect calls setCurrentTripId(tripId)
NavigateActiveTrip(tripId) ==
  /\ screenTrip' = tripId
  /\ currentTripId' = tripId

locRest == <<netVars, gpsClock, pendingUpdates, handlerVars, retryVars, retryGhost,
             failLog, requeued>>

\* loadData settles: setTrips with the statuses the server returned; the
\* request may have been sent before an alert opened
LoadData(tripId, status) ==
  /\ knownStatus[tripId] # status
  /\ knownStatus' = [knownStatus EXCEPT ![tripId] = status]
  /\ UNCHANGED <<dashPc, dashTrip, clPc, clTrip, clIssue, clPassed, clValidated,
                 checklistSubmitted, checklistPassed, startInvokedBy, startedOk>>
  /\ UNCHANGED <<locVars, authVars, trackVars, geoVars, boardVars, mockVars>>

\* handleTripPress: switch (trip.status) on the trip object of the list as
\* the dashboard holds it; for a status it offers to start, the 'Iniciar
\* Viaje' alert opens with that trip object captured
HandleTripPress(tripId) ==
  /\ dashPc = "idle"
  /\ OffersStart(knownStatus[tripId])
  /\ dashPc' = "alert"
  /\ dashTrip' = tripId
  /\ UNCHANGED <<knownStatus, clPc, clTrip, clIssue, clPassed, clValidated,
                 checklistSubmitted, checklistPassed, startInvokedBy, startedOk>>
  /\ UNCHANGED <<locVars, authVars, trackVars, geoVars, boardVars, mockVars>>

\* 'Cancelar' on the alert
StartAlertCancelled ==
  /\ dashPc = "alert"
  /\ dashPc' = "idle"
  /\ dashTrip' = NoTrip
  /\ UNCHANGED <<knownStatus, clPc, clTrip, clIssue, clPassed, clValidated,
                 checklistSubmitted, checklistPassed, startInvokedBy, startedOk>>
  /\ UNCHANGED <<locVars, authVars, trackVars, geoVars, boardVars, mockVars>>

\* 'Iniciar' on the alert: handleStartTrip(trip) with the captured trip calls
\* tripApiService.startTrip, directly, without checklist
HandleStartTrip(tripId) ==
  /\ dashPc = "alert"
  /\ dashTrip = tripId
  /\ dashPc' = "starting"
  /\ startInvokedBy' = [startInvokedBy EXCEPT ![tripId] = @ \cup {"dashboard"}]
  /\ UNCHANGED <<knownStatus, dashTrip, clPc, clTrip, clIssue, clPassed, clValidated,
                 checklistSubmitted, checklistPassed, startedOk>>
  /\ UNCHANGED <<locVars, authVars, trackVars, geoVars, boardVars, mockVars>>

\* the startTrip request of handleStartTrip settles: navigate, or alert
HandleStartTripSettles(ok) ==
  /\ dashPc = "starting"
  /\ dashPc' = "idle"
  /\ dashTrip' = NoTrip
  /\ IF ok
       THEN /\ startedOk' = startedOk \cup {dashTrip}
            /\ NavigateActiveTrip(dashTrip)
       ELSE UNCHANGED <<startedOk, screenTrip, currentTripId>>
  /\ UNCHANGED <<knownStatus, clPc, clTrip, clIssue, clPassed, clValidated,
                 checklistSubmitted, checklistPassed, startInvokedBy>>
  /\ UNCHANGED <<locRest, tripDoc, authVars, trackVars, geoVars, boardVars, mockVars>>

\* handleTripPress on a trip known as IN_PROGRESS: straight to the screen
HandleTripPressInProgress(tripId) ==
  /\ knownStatus[tripId] = "IN_PROGRESS"
  /\ screenTrip # tripId
  /\ NavigateActiveTrip(tripId)
  /\ UNCHANGED <<locRest, tripDoc, authVars, startVars, trackVars, geoVars, boardVars, mockVars>>

\* the PreTripChecklist screen is shown for a trip
OpenChecklist(tripId) ==
  /\ clPc = "closed"
  /\ clPc' = "form"
  /\ clTrip' = tripId
  /\ UNCHANGED <<knownStatus, dashPc, dashTrip, clIssue, clPassed, clValidated,
                 checklistSubmitted, checklistPassed, startInvokedBy, startedOk>>
  /\ UNCHANGED <<locVars, authVars, trackVars, geoVars, boardVars, mockVars>>

\* handleSubmit with a complete checklist: submitChecklist is called
HandleSubmit(hasIssue) ==
  /\ clPc = "form"
  /\ clPc' = "submitting"
  /\ clIssue' = hasIssue
  /\ checklistSubmitted' = checklistSubmitted \cup {clTrip}
  /\ UNCHANGED <<knownStatus, dashPc, dashTrip, clTrip, clPassed, clValidated,
                 checklistPassed, startInvokedBy, startedOk>>
  /\ UNCHANGED <<locVars, authVars, trackVars, geoVars, boardVars, mockVars>>

\* ChecklistService.submitChecklist: the server's verdict, or on any error
\* a locally computed result that passes when no item has status ISSUE
SubmitResult(outcome, hasIssue) ==
  IF outcome = "error" THEN ~hasIssue ELSE outcome = "passed"

\* a handleSubmit that went on to start the trip whatever the result
ProceedsToStart_Always(passed) == TRUE

\* if (result.passed) { initialize tracking, start the trip }
ProceedsToStart(passed) == passed

\* submitChecklist settles and handleSubmit branches on result.passed
SubmitSettles(outcome) ==
  /\ clPc = "submitting"
  /\ LET passed == SubmitResult(outcome, clIssue) IN
       /\ clPassed' = passed
       /\ clValidated' = (outcome # "error")
       /\ checklistPassed' = IF passed THEN checklistPassed \cup {clTrip}
                             ELSE checklistPassed
       /\ clPc' = IF ProceedsToStart(passed) THEN "initialize" ELSE "form"
  /\ UNCHANGED <<knownStatus, dashPc, dashTrip, clTrip, clIssue,
                 checklistSubmitted, startInvokedBy, startedOk>>
  /\ UNCHANGED <<locVars, authVars, trackVars, geoVars, boardVars, mockVars>>

\* getUserData, then initializeTripLocation, then the call of startTrip;
\* without user data both are skipped, and an initialization error skips
\* startTrip (caught, navigation is not blocked)
ChecklistInitialize ==
  /\ clPc = "initialize"
  /\ IF storedUser # NoUser /\ fsOnline
       THEN /\ tripDoc' = [tripDoc EXCEPT ![clTrip] =
                   [exists |-> TRUE, status |-> "ACTIVE", currentLocation |-> NoCoord]]
            /\ currentTripId' = clTrip
            /\ startInvokedBy' = [startInvokedBy EXCEPT ![clTrip] = @ \cup {"checklist"}]
            /\ clPc' = "starting"
       ELSE /\ clPc' = "alert"
            /\ UNCHANGED <<tripDoc, currentTripId, startInvokedBy>>
  /\ UNCHANGED <<knownStatus, dashPc, dashTrip, clTrip, clIssue, clPassed, clValidated,
                 checklistSubmitted, checklistPassed, startedOk>>
  /\ UNCHANGED <<locRest, screenTrip, authVars, trackVars, geoVars, boardVars, mockVars>>

\* the startTrip request of handleSubmit settles; an error is caught
ChecklistStartSettles(ok) ==
  /\ clPc = "starting"
  /\ clPc' = "alert"
  /\ startedOk' = IF ok THEN startedOk \cup {clTrip} ELSE startedOk
  /\ UNCHANGED <<knownStatus, dashPc, dashTrip, clTrip, clIssue, clPassed, clValidated,
                 checklistSubmitted, checklistPassed, startInvokedBy>>
  /\ UNCHANGED <<locVars, authVars, trackVars, geoVars, boardVars, mockVars>>

\* 'Checklist Aprobado' alert, 'Iniciar Viaje' pressed
ChecklistAlertConfirmed ==
  /\ clPc = "alert"
  /\ clPc' = "closed"
  /\ clTrip' = NoTrip
  /\ NavigateActiveTrip(clTrip)
  /\ UNCHANGED <<knownStatus, dashPc, dashTrip, clIssue, clPassed, clValidated,
                 checklistSubmitted, checklistPassed, startInvokedBy, startedOk>>
  /\ UNCHANGED <<locRest, tripDoc, authVars, trackVars, geoVars, boardVars, mockVars>>

(* ---------------- LocationEmulatorService: tracking ---------------- *)

MaxMounts == 2
MaxHandles == 4
MaxWaypoints == 2

Screens == 1..MaxMounts
NoScreen == 0
NoHandle == 0
Platforms == {"android", "ios"}

\* isEmulator(): Platform.OS === 'android' && true
isEmulator(os) == os = "android"

\* a permission request that is taken as granted on every platform
requestLocationPermission_Unchecked(os, granted, userGrants) == TRUE

\* requestLocationPermission(): on Android the existing permission, else the
\* answer to the requestMultiple dialog (false when either call throws);
\* on any other platform true, without a check
requestLocationPermission(os, granted, userGrants) ==
  IF os = "android" THEN (IF granted THEN TRUE ELSE userGrants) ELSE TRUE

\* the permission the OS holds once requestLocationPermission has returned
PermissionAfter(os, granted, userGrants) ==
  IF os = "android" /\ ~granted THEN userGrants ELSE granted

\* getCurrentLocation(): throws without permission; otherwise it queries the
\* GPS and settles with the fix, a fallback or mock location, or the error
GetCurrentLocationOutcome(os, granted, userGrants) ==
  IF requestLocationPermission(os, granted, userGrants)
    THEN [result |-> "settled", queried |-> TRUE]
    ELSE [result |-> "throws", queried |-> FALSE]

NotLocated == [result |-> "none", queried |-> FALSE]

NothingReceived == [fix |-> FALSE, mock |-> FALSE]
Receipts == [fix : BOOLEAN, mock : BOOLEAN]

\* Geolocation.watchPosition(...) / setInterval(...): a new handle that calls
\* the onLocationUpdate of instance sub
NewHandle(kind, sub) == [kind |-> kind, live |-> TRUE, sub |-> sub, ended |-> FALSE]

\* Geolocation.clearWatch(id) / clearInterval(id): ends the handle of that
\* kind with that id, and nothing else
Cleared(hs, id, kind) ==
  [i \in 1..Len(hs) |->
     IF i = id /\ hs[i].kind = kind THEN [hs[i] EXCEPT !.live = FALSE] ELSE hs[i]]

\* every handle created so far has seen a stopLocationTracking call
Ended(hs) == [i \in 1..Len(hs) |-> [hs[i] EXCEPT !.ended = TRUE]]

\* the device the app is installed on, before the app has asked for anything
TrackInit ==
  /\ platform = "android"
  /\ osGranted = FALSE
  /\ watchId = NoHandle
  /\ isTracking = FALSE
  /\ mockLocationEnabled = FALSE
  /\ handles = <<>>
  /\ mountCount = 0
  /\ mounted = FALSE
  /\ initPc = [s \in Screens |-> "unborn"]
  /\ timer = [s \in Screens |-> FALSE]
  /\ listener = NoScreen
  /\ trackResult = [s \in Screens |-> "none"]
  /\ lastLocate = NotLocated
  /\ rx = [s \in Screens |-> NothingReceived]
  /\ fellBack = {}

\* stopLocationTracking()
stopLocationTracking ==
  /\ IF watchId # NoHandle
       THEN /\ handles' = Ended(Cleared(handles, watchId,
                                 IF mockLocationEnabled THEN "interval" ELSE "gps"))
            /\ mockLocationEnabled' = FALSE
            /\ watchId' = NoHandle
            /\ isTracking' = FALSE
       ELSE /\ handles' = Ended(handles)
            /\ UNCHANGED <<mockLocationEnabled, watchId, isTracking>>
  /\ fellBack' = {}

\* the end of initializeTrip: subscribeToTrip(tripId, ...) and setInterval(...)
SubscribeAndStartTimer(s) ==
  /\ listener' = s
  /\ timer' = [timer EXCEPT ![s] = TRUE]
  /\ initPc' = [initPc EXCEPT ![s] = "done"]

\* the screen mounts: the effect runs initializeTrip up to await loadTripData()
MountScreen ==
  /\ ~mounted
  /\ mountCount < MaxMounts
  /\ mountCount' = mountCount + 1
  /\ mounted' = TRUE
  /\ initPc' = [initPc EXCEPT ![mountCount + 1] = "load"]
  /\ UNCHANGED <<platform, osGranted, watchId, isTracking, mockLocationEnabled, handles,
                 timer, listener, trackResult, lastLocate, rx, fellBack>>
  /\ UNCHANGED <<locVars, authVars, startVars, geoVars, boardVars, mockVars>>

\* loadTripData settles and startLocationTracking is called: it returns false
\* when tracking is already active, otherwise it awaits the permission
LoadTripDataSettles(s) ==
  /\ initPc[s] = "load"
  /\ IF isTracking
       THEN /\ trackResult' = [trackResult EXCEPT ![s] = "false"]
            /\ SubscribeAndStartTimer(s)
       ELSE /\ initPc' = [initPc EXCEPT ![s] = "permission"]
            /\ UNCHANGED <<trackResult, listener, timer>>
  /\ UNCHANGED <<platform, osGranted, watchId, isTracking, mockLocationEnabled, handles,
                 mountCount, mounted, lastLocate, rx, fellBack>>
  /\ UNCHANGED <<locVars, authVars, startVars, geoVars, boardVars, mockVars>>

\* requestLocationPermission settles inside startLocationTracking: the watch
\* is registered and the screen goes on to getCurrentLocation, or the call
\* returns false and initializeTrip goes on to subscribe
StartTrackingPermissionSettles(s, userGrants) ==
  /\ initPc[s] = "permission"
  /\ osGranted' = PermissionAfter(platform, osGranted, userGrants)
  /\ IF requestLocationPermission(platform, osGranted, userGrants)
       THEN /\ Len(handles) < MaxHandles
            /\ handles' = Append(handles, NewHandle("gps", s))
            /\ watchId' = Len(handles) + 1
            /\ isTracking' = TRUE
            /\ trackResult' = [trackResult EXCEPT ![s] = "true"]
            /\ initPc' = [initPc EXCEPT ![s] = "locate"]
            /\ UNCHANGED <<listener, timer>>
       ELSE /\ trackResult' = [trackResult EXCEPT ![s] = "false"]
            /\ SubscribeAndStartTimer(s)
            /\ UNCHANGED <<handles, watchId, isTracking>>
  /\ UNCHANGED <<platform, mockLocationEnabled, mountCount, mounted, lastLocate, rx, fellBack>>
  /\ UNCHANGED <<locVars, authVars, startVars, geoVars, boardVars, mockVars>>

\* the getCurrentLocation of the screen's startLocationTracking settles (a
\* throw is caught there), and initializeTrip subscribes and starts its timer
InitialLocationSettles(s, userGrants) ==
  /\ initPc[s] = "locate"
  /\ lastLocate' = GetCurrentLocationOutcome(platform, osGranted, userGrants)
  /\ osGranted' = PermissionAfter(platform, osGranted, userGrants)
  /\ SubscribeAndStartTimer(s)
  /\ UNCHANGED <<platform, watchId, isTracking, mockLocationEnabled, handles,
                 mountCount, mounted, trackResult, rx, fellBack>>
  /\ UNCHANGED <<locVars, authVars, startVars, geoVars, boardVars, mockVars>>

\* the screen unmounts: the effect's cleanup stops tracking and clears the
\* timer and the subscription that initializeTrip has set so far
UnmountScreen ==
  /\ mounted
  /\ mounted' = FALSE
  /\ stopLocationTracking
  /\ timer' = [timer EXCEPT ![mountCount] = FALSE]
  /\ listener' = IF initPc[mountCount] = "done" THEN NoScreen ELSE listener
  /\ UNCHANGED <<platform, osGranted, mountCount, initPc, trackResult, lastLocate, rx>>
  /\ UNCHANGED <<locVars, authVars, startVars, geoVars, boardVars, mockVars>>

\* a position watch delivers a fix to its onLocationUpdate
WatchDelivers(h) ==
  /\ h \in 1..Len(handles)
  /\ handles[h].kind = "gps"
  /\ handles[h].live
  /\ rx' = [rx EXCEPT ![handles[h].sub].fix = ~@]
  /\ fellBack' = fellBack
  /\ UNCHANGED <<platform, osGranted, watchId, isTracking, mockLocationEnabled, handles,
                 mountCount, mounted, initPc, timer, listener, trackResult, lastLocate>>
  /\ UNCHANGED <<locVars, authVars, startVars, geoVars, boardVars, mockVars>>

\* a position watch reports an error: on an emulator without mock updates
\* startMockLocationUpdates(onLocationUpdate), otherwise onError(error)
WatchErrors(h) ==
  /\ h \in 1..Len(handles)
  /\ handles[h].kind = "gps"
  /\ handles[h].live
  /\ IF isEmulator(platform) /\ ~mockLocationEnabled
       THEN /\ Len(handles) < MaxHandles
            /\ mockLocationEnabled' = TRUE
            /\ handles' = Append(handles, NewHandle("interval", handles[h].sub))
            /\ watchId' = Len(handles) + 1
       ELSE UNCHANGED <<mockLocationEnabled, handles, watchId>>
  /\ fellBack' = IF isTracking /\ ~handles[h].ended
                   THEN fellBack \cup {handles[h].sub} ELSE fellBack
  /\ UNCHANGED <<platform, osGranted, isTracking, mountCount, mounted, initPc, timer,
                 listener, trackResult, lastLocate, rx>>
  /\ UNCHANGED <<locVars, authVars, startVars, geoVars, boardVars, mockVars>>

\* updateMockLocation, every 3 seconds: a simulated location for the
\* onLocationUpdate it was started with, while tracking with mock updates
MockIntervalFires(h) ==
  /\ h \in 1..Len(handles)
  /\ handles[h].kind = "interval"
  /\ handles[h].live
  /\ rx' = IF isTracking /\ mockLocationEnabled
             THEN [rx EXCEPT ![handles[h].sub].mock = ~@] ELSE rx
  /\ UNCHANGED <<platform, osGranted, watchId, isTracking, mockLocationEnabled, handles,
                 mountCount, mounted, initPc, timer, listener, trackResult, lastLocate,
                 fellBack>>
  /\ UNCHANGED <<locVars, authVars, startVars, geoVars, boardVars, mockVars>>

\* getCurrentLocation() called by another screen (passenger boarding)
GetCurrentLocation(userGrants) ==
  /\ lastLocate' = GetCurrentLocationOutcome(platform, osGranted, userGrants)
  /\ osGranted' = PermissionAfter(platform, osGranted, userGrants)
  /\ UNCHANGED <<platform, watchId, isTracking, mockLocationEnabled, handles,
                 mountCount, mounted, initPc, timer, listener, trackResult, rx, fellBack>>
  /\ UNCHANGED <<locVars, authVars, startVars, geoVars, boardVars, mockVars>>

(* ---------------- Haversine distance ---------------- *)

\* numbers are fixed-point, FixedOne standing for 1.0, and every operation
\* rounds its result to the nearest representable number, as a double does
FixedOne == 10000
NotANumber == -1
NotComputed == -2

\* n / d rounded to the nearest integer, halves away from zero (d > 0)
RoundDiv(n, d) ==
  IF n >= 0 THEN (2 * n + d) \div (2 * d) ELSE -((2 * (-n) + d) \div (2 * d))

\* x * y
Mul(x, y) == RoundDiv(x * y, FixedOne)

\* x / y
Div(x, y) == RoundDiv(x * FixedOne, y)

\* Math.PI
MathPI == 31416

\* const R = 6371
EarthRadiusKm == 6371

\* toRad(value) = (value * Math.PI) / 180, value in whole degrees
toRad(value) == RoundDiv(value * MathPI, 180)

\* the terms of the power series of the sine after the first, summed
RECURSIVE SinTerms(_, _, _)
SinTerms(term, x2, k) ==
  IF k > 6 THEN 0
  ELSE LET next == -RoundDiv(Mul(term, x2), (2 * k) * (2 * k + 1))
       IN  next + SinTerms(next, x2, k + 1)

\* Math.sin(x), -pi <= x <= pi
RECURSIVE MathSin(_)
MathSin(x) ==
  IF x < 0 THEN -MathSin(-x)
  ELSE IF 2 * x > MathPI THEN MathSin(MathPI - x)
  ELSE x + SinTerms(x, Mul(x, x), 1)

RECURSIVE CosTerms(_, _, _)
CosTerms(term, x2, k) ==
  IF k > 7 THEN 0
  ELSE LET next == -RoundDiv(Mul(term, x2), (2 * k - 1) * (2 * k))
       IN  next + CosTerms(next, x2, k + 1)

\* Math.cos(x), -pi/2 <= x <= pi/2
MathCos(x) ==
  LET ax == IF x < 0 THEN -x ELSE x
  IN  FixedOne + CosTerms(FixedOne, Mul(ax, ax), 1)

\* the largest r in lo..hi with r * r <= n
RECURSIVE FloorSqrt(_, _, _)
FloorSqrt(n, lo, hi) ==
  IF lo >= hi THEN lo
  ELSE LET mid == (lo + hi + 1) \div 2
       IN  IF mid * mid <= n THEN FloorSqrt(n, mid, hi) ELSE FloorSqrt(n, lo, mid - 1)

\* Math.sqrt(x), x <= 1: NaN for a negative x
MathSqrt(x) ==
  IF x < 0 THEN NotANumber
  ELSE LET n == x * FixedOne
           r == FloorSqrt(n, 0, FixedOne)
       IN  IF n - r * r > r THEN r + 1 ELSE r

RECURSIVE AtanTerms(_, _, _)
AtanTerms(power, t2, k) ==
  IF k > 7 THEN 0
  ELSE LET next == -Mul(power, t2)
       IN  RoundDiv(next, 2 * k + 1) + AtanTerms(next, t2, k + 1)

\* the arc tangent of t, 0 <= t <= 1
MathAtan(t) ==
  IF t > 4142
    THEN LET u == RoundDiv((t - FixedOne) * FixedOne, t + FixedOne)
         IN  RoundDiv(MathPI, 4) + u + AtanTerms(u, Mul(u, u), 1)
    ELSE t + AtanTerms(t, Mul(t, t), 1)

\* Math.atan2(y, x), x >= 0 and y >= 0; NaN when either is
MathAtan2(y, x) ==
  IF y = NotANumber \/ x = NotANumber THEN NotANumber
  ELSE IF x = 0 /\ y = 0 THEN 0
  ELSE IF y <= x THEN MathAtan(Div(y, x))
  ELSE RoundDiv(MathPI, 2) - MathAtan(Div(x, y))

\* a point is <<latitude, longitude>> in whole degrees
LatitudeOf(point) == point[1]
LongitudeOf(point) == point[2]

\* dLon with the latitude of point1 taken for its longitude
DeltaLon_FromLatitude(point1_, point2_) ==
  toRad(LongitudeOf(point2_) - LatitudeOf(point1_))

\* const dLon = this.toRad(point2.longitude - point1.longitude)
DeltaLon(point1_, point2_) == toRad(LongitudeOf(point2_) - LongitudeOf(point1_))

\* const dLat = this.toRad(point2.latitude - point1.latitude)
DeltaLat(point1_, point2_) == toRad(LatitudeOf(point2_) - LatitudeOf(point1_))

\* sin(dLat/2) * sin(dLat/2) + sin(dLon/2) * sin(dLon/2) * cos(lat1) * cos(lat2),
\* the products taken left to right
HaversineA(dLat, dLon, lat1, lat2) ==
  LET sLat == MathSin(RoundDiv(dLat, 2))
      sLon == MathSin(RoundDiv(dLon, 2))
  IN  Mul(sLat, sLat) + Mul(Mul(Mul(sLon, sLon), MathCos(lat1)), MathCos(lat2))

\* calculateDistance(point1, point2), in units of 1/FixedOne km
calculateDistance(point1_, point2_) ==
  LET a == HaversineA(DeltaLat(point1_, point2_), DeltaLon(point1_, point2_),
                      toRad(LatitudeOf(point1_)), toRad(LatitudeOf(point2_)))
      c == MathAtan2(MathSqrt(a), MathSqrt(FixedOne - a))
  IN  IF c = NotANumber THEN NotANumber ELSE EarthRadiusKm * (2 * c)

LatValues == {-60, -19, 0, 19, 45}
LonValues == {-99, 0, 30, 120}
Points == LatValues \X LonValues

GeoInit ==
  /\ point1 = <<0, 0>>
  /\ point2 = <<0, 0>>
  /\ distance12 = NotComputed
  /\ distance21 = NotComputed

\* a caller computes the distance between its two points, in either order
CalculateDistance(forward) ==
  /\ IF forward
       THEN /\ distance12 = NotComputed
            /\ distance12' = calculateDistance(point1, point2)
            /\ UNCHANGED distance21
       ELSE /\ distance21 = NotComputed
            /\ distance21' = calculateDistance(point2, point1)
            /\ UNCHANGED distance12
  /\ UNCHANGED <<point1, point2>>
  /\ UNCHANGED <<locVars, authVars, startVars, trackVars, boardVars, mockVars>>

(* ---------------- TripPassengersScreen: boarding ---------------- *)

Passengers == {"p1", "p2", "p3"}

\* tripApiService.markPassengerBoarding: what the promise does when the
\* check-in request has settled; every error is caught and null is returned
markPassengerBoarding(responseOk) ==
  IF responseOk THEN "resolves passenger" ELSE "resolves null"

BoardInit ==
  /\ passengerStatus = [p \in Passengers |-> "EXPECTED"]
  /\ boardPc = [p \in Passengers |-> "idle"]
  /\ boardResult = [p \in Passengers |-> "none"]
  /\ boardError = FALSE
  /\ checkedIn = {}

\* loadPassengers settles: the list as the server holds it
LoadPassengers ==
  /\ passengerStatus' =
       [p \in Passengers |-> IF p \in checkedIn THEN "BOARDED" ELSE "EXPECTED"]
  /\ passengerStatus' # passengerStatus
  /\ UNCHANGED <<boardPc, boardResult, boardError, checkedIn>>
  /\ UNCHANGED <<locVars, authVars, startVars, trackVars, geoVars, mockVars>>

\* handleBoardPassenger: 'Ya abordó' for a passenger listed as BOARDED,
\* otherwise the 'Confirmar Abordaje' alert opens
HandleBoardPassenger(p) ==
  /\ \A q \in Passengers : boardPc[q] # "alert"
  /\ boardPc[p] = "idle"
  /\ passengerStatus[p] # "BOARDED"
  /\ boardPc' = [boardPc EXCEPT ![p] = "alert"]
  /\ UNCHANGED <<passengerStatus, boardResult, boardError, checkedIn>>
  /\ UNCHANGED <<locVars, authVars, startVars, trackVars, geoVars, mockVars>>

\* 'Cancelar'
BoardCancelled(p) ==
  /\ boardPc[p] = "alert"
  /\ boardPc' = [boardPc EXCEPT ![p] = "idle"]
  /\ UNCHANGED <<passengerStatus, boardResult, boardError, checkedIn>>
  /\ UNCHANGED <<locVars, authVars, startVars, trackVars, geoVars, mockVars>>

\* 'Confirmar': the check-in request is sent
BoardConfirmed(p) ==
  /\ boardPc[p] = "alert"
  /\ boardPc' = [boardPc EXCEPT ![p] = "request"]
  /\ boardResult' = [boardResult EXCEPT ![p] = "pending"]
  /\ boardError' = FALSE
  /\ UNCHANGED <<passengerStatus, checkedIn>>
  /\ UNCHANGED <<locVars, authVars, startVars, trackVars, geoVars, mockVars>>

\* the request settles: when the promise resolves the passenger is set to
\* BOARDED in the list, when it rejects the error alert is shown
BoardRequestSettles(p, responseOk) ==
  /\ boardPc[p] = "request"
  /\ boardPc' = [boardPc EXCEPT ![p] = "idle"]
  /\ boardResult' = [boardResult EXCEPT ![p] = IF responseOk THEN "ok" ELSE "failed"]
  /\ checkedIn' = IF responseOk THEN checkedIn \cup {p} ELSE checkedIn
  /\ IF markPassengerBoarding(responseOk) = "rejects"
       THEN /\ boardError' = TRUE
            /\ UNCHANGED passengerStatus
       ELSE /\ passengerStatus' = [passengerStatus EXCEPT ![p] = "BOARDED"]
            /\ UNCHANGED boardError
  /\ UNCHANGED <<locVars, authVars, startVars, trackVars, geoVars, mockVars>>

(* ---------------- MockTripService ---------------- *)

MockTripIds == {"m1", "m2"}

\* this.trips.get(tripId) is undefined
NoMockTrip == [status |-> "none", startTime |-> FALSE, waypoints |-> 0]

\* pending, then active, then completed
StatusRank(status) ==
  CASE status = "none" -> 0
    [] status = "pending" -> 1
    [] status = "active" -> 2
    [] status = "completed" -> 3

MockInit == mockTrips = [t \in MockTripIds |-> NoMockTrip]

\* createTrip settles: a trip with a new id and status 'pending' is stored
MockCreateTrip(tripId) ==
  /\ mockTrips[tripId] = NoMockTrip
  /\ mockTrips' = [mockTrips EXCEPT ![tripId] = [@ EXCEPT !.status = "pending"]]
  /\ UNCHANGED <<locVars, authVars, startVars, trackVars, geoVars, boardVars>>

\* startTrip after its delay: 'Trip not found' is thrown for an unknown id,
\* otherwise the trip is stored with status 'active' and a startTime
MockStartTrip(tripId) ==
  /\ mockTrips[tripId] # NoMockTrip
  /\ mockTrips' = [mockTrips EXCEPT ![tripId] =
                     [@ EXCEPT !.status = "active", !.startTime = TRUE]]
  /\ UNCHANGED <<locVars, authVars, startVars, trackVars, geoVars, boardVars>>

\* updateTripLocation: the location is appended to the waypoints of a known trip
MockUpdateTripLocation(tripId) ==
  /\ mockTrips[tripId] # NoMockTrip
  /\ mockTrips[tripId].waypoints < MaxWaypoints
  /\ mockTrips' = [mockTrips EXCEPT ![tripId] = [@ EXCEPT !.waypoints = @ + 1]]
  /\ UNCHANGED <<locVars, authVars, startVars, trackVars, geoVars, boardVars>>

\* endTrip after its delay: the trip is stored with status 'completed'
MockEndTrip(tripId) ==
  /\ mockTrips[tripId] # NoMockTrip
  /\ mockTrips' = [mockTrips EXCEPT ![tripId] = [@ EXCEPT !.status = "completed"]]
  /\ UNCHANGED <<locVars, authVars, startVars, trackVars, geoVars, boardVars>>

(* ---------------- specifications ---------------- *)

Init == LocInit /\ AuthInit /\ StartInit /\ TrackInit /\ GeoInit /\ BoardInit /\ MockInit

\* what the app itself does: nothing in it calls retryPendingUpdates
AppNext ==
  \/ NetworkChange
  \/ \E t \in TodayTrips : MountActiveTrip(t)
  \/ UnmountActiveTrip
  \/ \E t \in TodayTrips : InitializeTripLocation(t)
  \/ \E h \in Handlers, ts \in Timestamps : HandleLocationUpdate(h, ts)
  \/ \E h \in Handlers : HandlerUpdateSettles(h)
  \/ \E h \in Handlers : HandlerHistorySettles(h)
  \/ \E h \in Handlers, ok \in BOOLEAN : HandlerSendLocation(h, ok)

\* the service with a caller of its retry method
Next ==
  \/ AppNext
  \/ \E r \in OneRetryCall : RetryPendingUpdates(r)
  \/ \E r \in OneRetryCall : RetryUpdateSettles(r)
  \/ \E r \in OneRetryCall : RetryHistorySettles(r)

Spec == Init /\ [][Next]_vars

\* the service during one trip, every GPS fix with a timestamp of its own,
\* the retry method called without waiting for the previous call to return
OverlapNext ==
  \/ NetworkChange
  \/ \E t \in TodayTrips : MountActiveTrip(t)
  \/ UnmountActiveTrip
  \/ \E t \in TodayTrips : InitializeTripLocation(t)
  \/ \E h \in Handlers : HandleLocationUpdate(h, gpsClock + 1)
  \/ \E h \in Handlers : HandlerUpdateSettles(h)
  \/ \E h \in Handlers : HandlerHistorySettles(h)
  \/ \E h \in Handlers, ok \in BOOLEAN : HandlerSendLocation(h, ok)
  \/ \E r \in RetryCalls : RetryPendingUpdates(r)
  \/ \E r \in RetryCalls : RetryUpdateSettles(r)
  \/ \E r \in RetryCalls : RetryHistorySettles(r)

OverlapSpec == Init /\ [][OverlapNext]_vars

\* the service driven through one trip after another, every GPS fix with a
\* timestamp of its own, with a caller of its retry method
TripsNext ==
  \/ NetworkChange
  \/ \E t \in Trips : MountActiveTrip(t)
  \/ UnmountActiveTrip
  \/ \E t \in Trips : InitializeTripLocation(t)
  \/ EndTrip
  \/ \E h \in Handlers : HandleLocationUpdate(h, gpsClock + 1)
  \/ \E h \in Handlers : HandlerUpdateSettles(h)
  \/ \E h \in Handlers : HandlerHistorySettles(h)
  \/ \E h \in Handlers, ok \in BOOLEAN : HandlerSendLocation(h, ok)
  \/ \E r \in OneRetryCall : RetryPendingUpdates(r)
  \/ \E r \in OneRetryCall : RetryUpdateSettles(r)
  \/ \E r \in OneRetryCall : RetryHistorySettles(r)

TripsSpec == Init /\ [][TripsNext]_vars

BoardNext ==
  \/ LoadPassengers
  \/ \E p \in Passengers : HandleBoardPassenger(p)
  \/ \E p \in Passengers : BoardCancelled(p)
  \/ \E p \in Passengers : BoardConfirmed(p)
  \/ \E p \in Passengers, responseOk \in BOOLEAN : BoardRequestSettles(p, responseOk)

\* the passenger list of a trip and its boarding button
BoardSpec == Init /\ [][BoardNext]_vars

MockNext ==
  \/ \E t \in MockTripIds : MockCreateTrip(t)
  \/ \E t \in MockTripIds : MockStartTrip(t)
  \/ \E t \in MockTripIds : MockUpdateTripLocation(t)
  \/ \E t \in MockTripIds : MockEndTrip(t)

\* MockTripService under any sequence of calls
MockSpec == Init /\ [][MockNext]_vars

\* the app as it is, without a caller of retryPendingUpdates
AppSpec == Init /\ [][AppNext]_vars

\* the app under the scheduling its runtime gives it: the position watch keeps
\* delivering fixes while the screen is mounted, and every promise settles
AppFairSpec ==
  /\ Init
  /\ [][AppNext]_vars
  /\ WF_vars(\E h \in Handlers, ts \in Timestamps : HandleLocationUpdate(h, ts))
  /\ WF_vars(\E h \in Handlers : HandlerUpdateSettles(h))
  /\ WF_vars(\E h \in Handlers : HandlerHistorySettles(h))
  /\ WF_vars(\E h \in Handlers, ok \in BOOLEAN : HandlerSendLocation(h, ok))

AuthNext ==
  \/ Tick
  \/ \E exp \in ExpValues, responseOk \in BOOLEAN, storeOk \in BOOLEAN :
       Login(exp, responseOk, storeOk)
  \/ \E removeOk \in BOOLEAN : Logout(removeOk)
  \/ \E readOk \in BOOLEAN : isAuthenticated(readOk)
  \/ \E kind \in RequestKinds, readOk \in BOOLEAN : ApiRequest(kind, readOk)

\* the auth client and the REST client's headers
AuthSpec == Init /\ [][AuthNext]_vars

StartNext ==
  \/ NetworkChange
  \/ UnmountActiveTrip
  \/ Login(100, TRUE, TRUE)
  \/ Logout(TRUE)
  \/ \E t \in TodayTrips, st \in TripStatuses : LoadData(t, st)
  \/ \E t \in TodayTrips : HandleTripPress(t)
  \/ StartAlertCancelled
  \/ \E t \in TodayTrips : HandleStartTrip(t)
  \/ \E ok \in BOOLEAN : HandleStartTripSettles(ok)
  \/ \E t \in TodayTrips : HandleTripPressInProgress(t)
  \/ \E t \in TodayTrips : OpenChecklist(t)
  \/ \E hasIssue \in BOOLEAN : HandleSubmit(hasIssue)
  \/ \E outcome \in {"passed", "failed", "error"} : SubmitSettles(outcome)
  \/ ChecklistInitialize
  \/ \E ok \in BOOLEAN : ChecklistStartSettles(ok)
  \/ ChecklistAlertConfirmed

\* the dashboard and the checklist screen starting trips
StartSpec == Init /\ [][StartNext]_vars

\* any device: either platform, the permission granted beforehand or not
AnyDeviceInit ==
  /\ LocInit /\ AuthInit /\ StartInit /\ GeoInit /\ BoardInit /\ MockInit
  /\ platform \in Platforms
  /\ osGranted \in BOOLEAN
  /\ watchId = NoHandle
  /\ isTracking = FALSE
  /\ mockLocationEnabled = FALSE
  /\ handles = <<>>
  /\ mountCount = 0
  /\ mounted = FALSE
  /\ initPc = [s \in Screens |-> "unborn"]
  /\ timer = [s \in Screens |-> FALSE]
  /\ listener = NoScreen
  /\ trackResult = [s \in Screens |-> "none"]
  /\ lastLocate = NotLocated
  /\ rx = [s \in Screens |-> NothingReceived]
  /\ fellBack = {}

TrackNext ==
  \/ MountScreen
  \/ \E s \in Screens : LoadTripDataSettles(s)
  \/ \E s \in Screens, userGrants \in BOOLEAN : StartTrackingPermissionSettles(s, userGrants)
  \/ \E s \in Screens, userGrants \in BOOLEAN : InitialLocationSettles(s, userGrants)
  \/ UnmountScreen
  \/ \E h \in 1..MaxHandles : WatchDelivers(h)
  \/ \E h \in 1..MaxHandles : WatchErrors(h)
  \/ \E h \in 1..MaxHandles : MockIntervalFires(h)
  \/ \E userGrants \in BOOLEAN : GetCurrentLocation(userGrants)

\* the active-trip screen and the location service it tracks with
TrackSpec == AnyDeviceInit /\ [][TrackNext]_vars

\* any two points of the grid
AnyPointsInit ==
  /\ LocInit /\ AuthInit /\ StartInit /\ TrackInit /\ BoardInit /\ MockInit
  /\ point1 \in Points
  /\ point2 \in Points
  /\ distance12 = NotComputed
  /\ distance21 = NotComputed

GeoNext == \E forward \in BOOLEAN : CalculateDistance(forward)

\* calculateDistance applied to pairs of points
GeoSpec == AnyPointsInit /\ [][GeoNext]_vars

\* the same under the scheduling of the runtime: a live interval keeps
\* firing and every awaited promise settles
TrackFairSpec ==
  /\ AnyDeviceInit
  /\ [][TrackNext]_vars
  /\ \A h \in 1..MaxHandles : WF_vars(MockIntervalFires(h))
  /\ \A s \in Screens : WF_vars(LoadTripDataSettles(s))
  /\ \A s \in Screens : WF_vars(\E g \in BOOLEAN : StartTrackingPermissionSettles(s, g))
  /\ \A s \in Screens : WF_vars(\E g \in BOOLEAN : InitialLocationSettles(s, g))

(* ======================= claims ======================= *)

\* C1: a retryPendingUpdates call during which no write fails writes exactly
\* the coordinates that were queued when it was called, each once and in
\* queue order, and leaves the pending queue empty.
C1_RetryDrainsInOrder ==
  \A r \in RetryCalls :
    (rPc[r] = "done" /\ rClean[r]) =>
      /\ rWritten[r] = rQueued[r]
      /\ pendingUpdates = <<>>

\* a retry call has written a queue of three coordinates, not all equal
C1_Witness ==
  \E r \in RetryCalls :
    /\ rPc[r] = "done"
    /\ rClean[r]
    /\ Len(rQueued[r]) >= 3
    /\ rQueued[r][1] # rQueued[r][3]
    /\ rWritten[r] = rQueued[r]

\* C2 (as claimed): after a retryPendingUpdates call that had the queue to
\* itself, the queue holds exactly one entry per coordinate whose retry
\* failed, in batch order, and none for a coordinate whose retry succeeded.
C2_RequeuedOnce ==
  \A r \in RetryCalls :
    (rPc[r] = "done" /\ rAlone[r]) => pendingUpdates = rFailed[r]

\* C3 (as claimed): a failed Firestore write and a failed REST POST both
\* append the coordinate of the update to the pending queue.
C3_EitherFailureQueues ==
  [][\A h \in Handlers :
       ( \/ (hPc[h] = "update" /\ hFs'[h] = "failed")
         \/ (hPc[h] = "rest" /\ hRest'[h] = "failed") )
       => pendingUpdates' = Append(pendingUpdates, hCoord[h])]_vars

\* C3 (amended): a failed trip_locations document update appends the
\* coordinate to the pending queue, once; a failed REST POST and a settled
\* history add leave the queue as it was.
C3_FirestoreFailureQueues ==
  [][\A h \in Handlers :
       /\ (hPc[h] = "update" /\ hFs'[h] = "failed")
            => pendingUpdates' = Append(pendingUpdates, hCoord[h])
       /\ (hPc[h] = "rest" /\ hRest'[h] = "failed")
            => pendingUpdates' = pendingUpdates
       /\ (hPc[h] = "history" /\ hPc'[h] = "rest")
            => pendingUpdates' = pendingUpdates]_vars

\* a GPS callback whose REST POST failed has finished with an empty queue
C3_Witness ==
  \E h \in Handlers :
    /\ hPc[h] = "idle"
    /\ hFs[h] = "ok"
    /\ hRest[h] = "failed"
    /\ pendingUpdates = <<>>

\* C4 (as claimed): a GPS callback that has been handled attempted the REST
\* POST of its coordinate, whatever became of the Firestore write.
C4_RestAlwaysAttempted ==
  \A h \in Handlers :
    (hPc[h] = "idle" /\ hFs[h] \in {"ok", "failed"}) => hRest[h] # "none"

\* C5 (as claimed): once writes for the mounted trip succeed, a non-empty
\* pending queue is eventually emptied (or writes stop succeeding first).
C5_QueueEventuallyDrained ==
  (screenTrip # NoTrip /\ FsUpdateOk(screenTrip) /\ Len(pendingUpdates) > 0)
    ~> (Len(pendingUpdates) = 0 \/ screenTrip = NoTrip \/ ~FsUpdateOk(screenTrip))

\* C10: as long as no retry has re-queued anything since the queue was last
\* drained, the queue is exactly the coordinates of the failed
\* updateCurrentLocation calls since then, one entry per call, in call order.
C10_QueueKeepsEveryFailure ==
  ~requeued =>
    /\ pendingUpdates = failLog
    /\ getPendingUpdatesCount = Len(failLog)

\* the queue holds MaxQueue consecutive failures
C10_Witness ==
  /\ ~requeued
  /\ Len(failLog) = MaxQueue
  /\ getPendingUpdatesCount = MaxQueue

\* C6 (as claimed): with the token and user data of a login in storage and
\* readable, isAuthenticated() returns true as long as the current time is
\* before the exp claim of that token.
C6_AuthenticatedUntilExp ==
  ( /\ authResult # "none"
    /\ authReadOk
    /\ storedToken # NoToken
    /\ storedUser # NoUser
    /\ nowMs < issuedExp * MsPerSec )
  => authResult = "true"

\* C7: isAuthenticated() returns false whenever the exp claim of the stored
\* token is earlier than the current time in seconds.
C7_ExpiredTokenRejected ==
  ( /\ authResult # "none"
    /\ storedToken # NoToken
    /\ issuedExp < nowMs \div MsPerSec )
  => authResult = "false"

\* a token that decodes and parses has expired and the call returned false
C7_Witness ==
  /\ authResult = "false"
  /\ authReadOk
  /\ storedToken # NoToken
  /\ storedUser # NoUser
  /\ JsonParse(base64Decode(UrlToStd(storedToken[2]))).ok
  /\ issuedExp < nowMs \div MsPerSec

\* C9 (as claimed): every request carries Authorization: Bearer <jwt> with
\* the token that local storage held when the request was made.
C9_AlwaysBearer ==
  lastRequest.kind # "none" =>
    /\ "Authorization" \in DOMAIN lastRequest.headers
    /\ lastRequest.headers["Authorization"] = <<"Bearer", lastRequest.stored>>

\* C9 (amended): a request made when getAuthToken returns a token carries
\* Authorization: Bearer <jwt> with the token held in local storage at that
\* time; when storage holds no token, or cannot be read, the request is
\* sent without an Authorization header.
C9_BearerWhenTokenRead ==
  lastRequest.kind # "none" =>
    IF lastRequest.read # NoToken
      THEN /\ "Authorization" \in DOMAIN lastRequest.headers
           /\ lastRequest.headers["Authorization"] = <<"Bearer", lastRequest.stored>>
      ELSE "Authorization" \notin DOMAIN lastRequest.headers

\* a request went out with the stored token in its Authorization header
C9_Witness ==
  /\ lastRequest.kind = "fetchWithAuth"
  /\ lastRequest.stored # NoToken
  /\ "Authorization" \in DOMAIN lastRequest.headers
  /\ lastRequest.headers["Authorization"] = <<"Bearer", storedToken>>

C11_UnmountClearsHandles ==
  \A s \in Screens :
    (s <= mountCount /\ ~(mounted /\ s = mountCount)) =>
      /\ ~timer[s]
      /\ listener # s
      /\ \A h \in 1..Len(handles) : handles[h].sub = s => ~handles[h].live

\* what C12 says of a device in its present state: a position watch exists
\* and a GPS query was made only with the permission granted, and without it
\* startLocationTracking has returned false with no watch registered and
\* getCurrentLocation has thrown with no query made
PermissionChecked ==
  /\ \A h \in 1..Len(handles) : handles[h].kind = "gps" => osGranted
  /\ lastLocate.queried => osGranted
  /\ \A s \in Screens :
       (trackResult[s] # "none" /\ ~osGranted) =>
         /\ trackResult[s] = "false"
         /\ \A h \in 1..Len(handles) : handles[h].sub # s
  /\ (lastLocate.result # "none" /\ ~osGranted) =>
       /\ lastLocate.result = "throws"
       /\ ~lastLocate.queried

\* C12 (as claimed): on every device the location is read only under a
\* permission check: without the permission startLocationTracking returns
\* false and getCurrentLocation throws, no watch registered, no query made.
C12_OnlyUnderPermission == PermissionChecked

\* C12 (amended): on Android the location is read only under a permission
\* check: without the permission startLocationTracking returns false and
\* getCurrentLocation throws, no watch registered, no query made. (On other
\* platforms requestLocationPermission returns true without a check.)
C12_AndroidOnlyUnderPermission == platform = "android" => PermissionChecked

\* on Android without the permission, startLocationTracking has returned
\* false and getCurrentLocation has thrown
C12_Witness ==
  /\ platform = "android"
  /\ ~osGranted
  /\ \E s \in Screens : trackResult[s] = "false" /\ initPc[s] = "done"
  /\ lastLocate.result = "throws"
  /\ handles = <<>>

\* C13 (as claimed): on an emulator, once the position watch of a tracking
\* session has reported an error, the subscriber of that session receives a
\* further location, again and again, until stopLocationTracking is called.
C13_FallbackKeepsDelivering ==
  \A s \in Screens : \A seen \in Receipts :
    (isEmulator(platform) /\ s \in fellBack /\ rx[s] = seen)
      ~> (s \notin fellBack \/ rx[s] # seen)

\* C14: a failed Firestore write or a failed REST POST ends the GPS callback
\* without an error leaving handleLocationUpdate: the handler is idle again,
\* ready for the next fix, and the screen keeps its trip and its watch.
C14_FailureNotFatal ==
  [][\A h \in Handlers :
       ( \/ (hPc[h] = "update" /\ hFs'[h] = "failed")
         \/ (hPc[h] = "rest" /\ hRest'[h] = "failed") )
       => /\ hPc'[h] = "idle"
          /\ screenTrip' = screenTrip
          /\ <<watchId', isTracking'>> = <<watchId, isTracking>>]_vars

\* a GPS callback is being processed after the write of an earlier one failed
C14_Witness ==
  \E h \in Handlers :
    /\ hPc[h] = "update"
    /\ Len(failLog) > 0
    /\ hCoord[h] > failLog[Len(failLog)]

\* C15 (as claimed): calculateDistance(A, B) equals calculateDistance(B, A)
\* for all points A and B.
C15_DistanceSymmetric ==
  (distance12 # NotComputed /\ distance21 # NotComputed) =>
    /\ distance12 = distance21
    /\ distance12 # NotANumber

\* C16: calculateDistance(A, A) returns 0 for every point A.
C16_DistanceToSelfZero ==
  point1 = point2 =>
    /\ distance12 \in {NotComputed, 0}
    /\ distance21 \in {NotComputed, 0}

\* the distance of a point off the equator and the prime meridian to itself
\* has been computed
C16_Witness ==
  /\ point1 = point2
  /\ LatitudeOf(point1) # 0
  /\ LongitudeOf(point1) # 0
  /\ distance12 = 0

\* C17 (as claimed): TripDashboard requests a trip start only for a trip
\* whose known status is PLANNED, PRE_CHECKLIST, CHECKLIST_FAILED or READY,
\* never for one it knows as IN_PROGRESS, COMPLETED or CANCELLED.
C17_StartOnlyFromStartable ==
  [][(dashPc = "alert" /\ dashPc' = "starting") =>
       /\ OffersStart(knownStatus[dashTrip])
       /\ knownStatus[dashTrip] \notin {"IN_PROGRESS", "COMPLETED", "CANCELLED"}]_vars

\* C18 (as claimed): the checklist screen treats a checklist as passed, and
\* goes on to initialize tracking and start the trip, only when the server
\* validated that submission.
C18_PassedOnlyWhenServerValidated ==
  clPc \in {"initialize", "starting", "alert"} => clValidated

\* the coordinates a retry call still has to process: the one whose write it
\* awaits and those after it in its batch
Remaining(r) ==
  LET from == IF rPc[r] = "update" THEN rIdx[r]
              ELSE IF rPc[r] = "history" THEN rIdx[r] + 1
              ELSE Len(rUpdates[r]) + 1
  IN  {rUpdates[r][i] : i \in from..Len(rUpdates[r])}

\* C19: at every moment, each coordinate whose Firestore write failed and has
\* not since been written successfully is in the pending queue or in the batch
\* a retryPendingUpdates call is processing, also when new failures are queued
\* or a second call starts while a retry awaits a write.
C19_NoFailedCoordinateLost ==
  \A coordinate \in owed :
    \/ \E i \in 1..Len(pendingUpdates) : pendingUpdates[i] = coordinate
    \/ \E r \in RetryCalls : coordinate \in Remaining(r)

\* two retry calls each await a write while the queue holds failures again,
\* and two coordinates are owed
C19_Witness ==
  /\ rPc["r1"] = "update"
  /\ rPc["r2"] = "update"
  /\ Len(pendingUpdates) > 0
  /\ Cardinality(owed) = 2

\* C20 (as claimed): retryPendingUpdates writes a queued coordinate only into
\* the document of a trip it was recorded for, also after setCurrentTripId or
\* initializeTripLocation has changed the current trip.
C20_RetriedAgainstOwnTrip ==
  [][\A r \in RetryCalls :
       (rPc[r] = "update" /\ rPc'[r] = "history") =>
         rTrip[r] \in capturedFor[rUpdates[r][rIdx[r]]]]_vars

\* C21 (as claimed): a retried coordinate never overwrites a more recent
\* position: when retryPendingUpdates completes with the last coordinate of
\* its batch written and stored as currentLocation of the trip it began with,
\* that position is no older than the one the document had before the retry.
C21_RetryNeverGoesBack ==
  [][\A r \in RetryCalls :
       (/\ rPc[r] = "history"
        /\ rPc'[r] = "done"
        /\ rTrip[r] = currentTripId
        /\ tripDoc'[rTrip[r]].currentLocation = rUpdates[r][Len(rUpdates[r])])
       => ~rBefore[r]]_vars

\* a location write lands in the document of a trip
WritesLocation(tripId) ==
  \/ \E h \in Handlers :
       hPc[h] = "update" /\ hPc'[h] = "history" /\ hTrip[h] = tripId
  \/ \E r \in RetryCalls :
       rPc[r] = "update" /\ rPc'[r] = "history" /\ rTrip[r] = tripId

C23_UpdateOnlyAfterInitialize ==
  [][\A h \in Handlers :
       (hPc[h] = "idle" /\ hPc'[h] = "update") =>
         /\ hTrip'[h] \in Trips
         /\ tripDoc[hTrip'[h]].exists]_vars

\* the position watches registered and not cleared
LiveWatches == {h \in 1..Len(handles) : handles[h].kind = "gps" /\ handles[h].live}

\* C24 (as claimed): at most one position watch is registered at a time, also
\* when a second startLocationTracking call begins while the first is still
\* awaiting the permission check.
C24_AtMostOneWatch == Cardinality(LiveWatches) <= 1

\* C25 (as claimed): after stopLocationTracking returns, every handle the
\* service created since the last start, the GPS watch and the mock interval
\* of a fallback, has been cleared, for any sequence of start, GPS error and
\* stop.
C25_StopClearsEveryHandle ==
  \A h \in 1..Len(handles) : handles[h].ended => ~handles[h].live

\* C26 (as claimed): the app navigates to the ActiveTrip screen for a trip
\* that is being started only if the backend startTrip request for that trip
\* succeeded.
C26_NavigateOnlyAfterStart ==
  [][/\ (dashPc = "starting" /\ dashPc' = "idle" /\ screenTrip' # screenTrip)
          => dashTrip \in startedOk'
     /\ (clPc = "alert" /\ clPc' = "closed") => clTrip \in startedOk]_vars

\* C27 (as claimed): a passenger is marked BOARDED in the local list only if
\* the server check-in succeeded; when the request fails the passenger's
\* status is unchanged and the error alert is shown; and no request is sent
\* for a passenger who is already BOARDED.
C27_BoardedOnlyAfterCheckIn ==
  [][\A p \in Passengers :
       /\ (boardPc[p] = "request" /\ boardPc'[p] = "idle") =>
            IF boardResult'[p] = "ok"
              THEN passengerStatus'[p] = "BOARDED"
              ELSE passengerStatus'[p] = passengerStatus[p] /\ boardError'
       /\ (boardPc[p] = "alert" /\ boardPc'[p] = "request") =>
            passengerStatus[p] # "BOARDED"]_vars

\* C29 (as claimed): in MockTripService a trip's status only moves forward,
\* pending, then active, then completed: no sequence of createTrip,
\* startTrip, updateTripLocation and endTrip calls moves a completed trip
\* back to active or pending.
C29_StatusOnlyForward ==
  [][\A t \in MockTripIds :
       StatusRank(mockTrips'[t].status) >= StatusRank(mockTrips[t].status)]_vars

\* C28: isAuthenticated() returns true only while the token and the user data
\* written by a successful login are both in storage; a login that fails (a
\* non-OK response or a storage failure) writes neither item, a logout that
\* completes removes both, and only a successful login puts an item in storage.
C28_TrueOnlyWithStoredSession ==
  /\ [](authResult = "true" =>
          /\ everLoggedIn
          /\ storedUser # NoUser
          /\ storedToken # NoToken
          /\ storedToken = IssueJwt(issuedExp))
  /\ [][/\ \A exp \in ExpValues, responseOk \in BOOLEAN, storeOk \in BOOLEAN :
            (Login(exp, responseOk, storeOk) /\ ~(responseOk /\ storeOk))
              => UNCHANGED <<storedToken, storedUser>>
        /\ (Logout(TRUE) => (storedToken' = NoToken /\ storedUser' = NoUser))
        /\ ( ( /\ <<storedToken', storedUser'>> # <<storedToken, storedUser>>
               /\ (storedToken' # NoToken \/ storedUser' # NoUser) )
            => \E exp \in ExpValues : Login(exp, TRUE, TRUE) )]_vars

\* isAuthenticated() read an emptied storage after a logout and returned false
C28_Witness ==
  /\ authResult = "false"
  /\ authReadOk
  /\ everLoggedIn
  /\ storedToken = NoToken
  /\ storedUser = NoUser

====
